---- MODULE Spec2Model ----
(***************************************************************************)
(* MOSS (cmd/moss/main.go): the scan orchestration pipeline.               *)
(*                                                                         *)
(*   main: check_gitleaks_conf -> resolve the PAT of every organization    *)
(*         -> get_org_repos for every organization holding a PAT           *)
(*         -> one scan_repo goroutine per discovered repository            *)
(*         -> collect one result per repository from the channel -> report *)
(*                                                                         *)
(* The external collaborators (the process environment, the rule file, the *)
(* hosting API, git, gitleaks, the file system) are the environment: their *)
(* answers are drawn from small sets.  Time is counted in days.            *)
(***************************************************************************)
EXTENDS Integers, Sequences, FiniteSets, Bags, TLC

(***************************************************************************)
(* Bounds of the model.                                                    *)
(***************************************************************************)
\* the repositories the hosting API holds, all organizations together
MaxRepos == 4
\* the page size of the hosting API (the request names none)
PerPage == 2
\* the scan goroutines of one run: the inputs are those that dispatch no more
\* (the interleavings of the goroutines grow fastest with their number)
MaxUnits == MaxRepos \div 2

(***************************************************************************)
(* The inputs of a run.                                                    *)
(***************************************************************************)
\* conf.GithubConfig.OrgsToScan: the first organization is written as the host
\* writes it, the second in another case of letters
OrgsToScan == <<"o1", "O2">>

Orgs == {OrgsToScan[k] : k \in 1..Len(OrgsToScan)}

\* the login of an organization at the host: the API finds an organization
\* whatever the case of the letters of the name asked for, and names the owner
\* of a repository by the login
Login(org) == IF org = "O2" THEN "o2" ELSE org

\* the token an organization's PAT_<org> variable holds when it is set
TokenOf(org) == IF org = OrgsToScan[1] THEN "tok1" ELSE "tok2"

\* what os.Getenv("PAT_<org>") may answer; "" is an unset variable
PatValues(org) == {"", TokenOf(org)}

\* conf.GithubConfig.DaysToScan
DaysToScan == 7

\* time.Now(), in days
Now == 30

\* conf.Output.Format
Formats == {"json", "text"}


\* last-push times the API may report: one day older than the cutoff, and the
\* cutoff itself
PushedTimes == {Now - DaysToScan - 1, Now - DaysToScan}

RepoKinds == [Archived : BOOLEAN, PushedAt : PushedTimes]

\* the repository the API lists at place k of organization org; its full name
\* is <Owner>/<Name>
MkRepo(org, k, kind) ==
    [Owner |-> Login(org), Name |-> k, Archived |-> kind.Archived, PushedAt |-> kind.PushedAt]

RECURSIVE SeqsUpTo(_, _)
SeqsUpTo(S, n) ==
    IF n = 0 THEN {<<>>}
    ELSE LET shorter == SeqsUpTo(S, n - 1)
         IN  shorter \cup {Append(s, x) : s \in {t \in shorter : Len(t) = n - 1}, x \in S}

KindLists == SeqsUpTo(RepoKinds, MaxRepos)

RECURSIVE SumLen(_, _)
SumLen(f, S) ==
    IF S = {} THEN 0
    ELSE LET o == CHOOSE x \in S : TRUE
         IN  Len(f[o]) + SumLen(f, S \ {o})

(***************************************************************************)
(* The hosting API: client.Repositories.ListByOrg.                         *)
(***************************************************************************)
Min(a, b) == IF a < b THEN a ELSE b

\* The page the API serves for a page number: its first page is number 1,
\* and a request that names page 0 names no page and is served the first.
ServedPage(page) == IF page = 0 THEN 1 ELSE page

\* the repositories of one page of an organization's list
ListByOrg(list, page) ==
    LET p == ServedPage(page)
    IN  SubSeq(list, (p - 1) * PerPage + 1, Min(p * PerPage, Len(list)))

\* Every page from this number on is empty, whatever the organization.
PageCap == (MaxRepos \div PerPage) + 2

(***************************************************************************)
(* get_org_repos: the loop over the repositories of one page.              *)
(***************************************************************************)
\* time_ago := time.Now().AddDate(0, 0, -1*daysago)
TimeAgo(daysago) == Now - daysago

\* Before taken as "not after"
NotAfter(t, time_ago) == t <= time_ago

\* repo.PushedAt.Time.Before(time_ago)
Before(t, time_ago) == t < time_ago

\* ScanPage with `continue` where the code has `break`
RECURSIVE ScanPageNoBreak(_, _, _, _)
ScanPageNoBreak(repos, k, acc, time_ago) ==
    IF k > Len(repos) THEN <<acc, FALSE>>
    ELSE IF repos[k].Archived THEN ScanPageNoBreak(repos, k + 1, acc, time_ago)
    ELSE IF Before(repos[k].PushedAt, time_ago)
         THEN <<ScanPageNoBreak(repos, k + 1, acc, time_ago)[1], TRUE>>
    ELSE ScanPageNoBreak(repos, k + 1, Append(acc, repos[k]), time_ago)

\* ScanPage testing the last push before the archived flag
RECURSIVE ScanPageStaleFirst(_, _, _, _)
ScanPageStaleFirst(repos, k, acc, time_ago) ==
    IF k > Len(repos) THEN <<acc, FALSE>>
    ELSE IF Before(repos[k].PushedAt, time_ago) THEN <<acc, TRUE>>
    ELSE IF repos[k].Archived THEN ScanPageStaleFirst(repos, k + 1, acc, time_ago)
    ELSE ScanPageStaleFirst(repos, k + 1, Append(acc, repos[k]), time_ago)

\* for _, repo := range repos { ... }: from place k on, with the repositories
\* appended so far; the answer is <<org_repos, saw_older>>
RECURSIVE ScanPage(_, _, _, _)
ScanPage(repos, k, acc, time_ago) ==
    IF k > Len(repos) THEN <<acc, FALSE>>
    ELSE IF repos[k].Archived THEN ScanPage(repos, k + 1, acc, time_ago)
    ELSE IF Before(repos[k].PushedAt, time_ago) THEN <<acc, TRUE>>
    ELSE ScanPage(repos, k + 1, Append(acc, repos[k]), time_ago)

\* get_org_repos against an API that answers every request: the sequence it
\* returns, or <<>> when it never returns
RECURSIVE Discovered(_, _, _)
Discovered(list, page, acc) ==
    LET r == ScanPage(ListByOrg(list, page), 1, acc, TimeAgo(DaysToScan))
    IN  IF r[2] THEN r[1]
        ELSE IF page >= PageCap THEN <<>>
        ELSE Discovered(list, page + 1, r[1])

RECURSIVE SumUnits(_, _)
SumUnits(f, S) ==
    IF S = {} THEN 0
    ELSE LET o == CHOOSE x \in S : TRUE
         IN  Len(Discovered(f[o], 0, <<>>)) + SumUnits(f, S \ {o})

\* the functions from the organizations S to lists of kinds of at most n
\* repositories all together
RECURSIVE ListsWithin(_, _)
ListsWithin(S, n) ==
    IF S = {} THEN {<<>>}
    ELSE LET o == CHOOSE x \in S : TRUE
         IN  UNION {{[x \in S |-> IF x = o THEN l ELSE g[x]] :
                       g \in ListsWithin(S \ {o}, n - Len(l))} :
                    l \in {t \in KindLists : Len(t) <= n}}

\* the API's contents a run may meet
Servers ==
    {f \in ListsWithin(Orgs, MaxRepos) : SumLen(f, Orgs) <= MaxRepos /\ SumUnits(
        [o \in Orgs |-> [k \in 1..Len(f[o]) |-> MkRepo(o, k, f[o][k])]], Orgs) <= MaxUnits}

(***************************************************************************)
(* The state.                                                              *)
(***************************************************************************)
VARIABLES
    confReadable,   \* whether os.ReadFile of the gitleaks toml succeeds
    env,            \* the process environment: PAT_<org> of every organization
    server,         \* the hosting API: every organization's repositories, as listed
    pc,             \* where main is
    i,              \* main: the place in OrgsToScan of the PAT loop
    pats,           \* main: pats, a map from organization to PAT
    todo,           \* main: the keys of pats the discovery loop has yet to range over
    gorg,           \* get_org_repos: orgname
    page,           \* get_org_repos: page
    org_repos,      \* get_org_repos: org_repos
    all_repos,      \* main: all_repos
    d,              \* main: the place in all_repos of the dispatch loop
    units,          \* the scan_repo goroutines, in the order main started them
    collected,      \* main: collected
    final_results,  \* main: final_results
    output,         \* what main wrote to ./output.json and printed
    requested,      \* history: the organizations a ListByOrg request was made for
    failedOrgs      \* history: the organizations get_org_repos returned an error for

vars == <<confReadable, env, server, pc, i, pats, todo, gorg, page, org_repos,
          all_repos, d, units, collected, final_results, output, requested,
          failedOrgs>>

inputVars == <<confReadable, env, server>>
discoveryVars == <<gorg, page, org_repos, requested, failedOrgs>>

\* no error, no findings file read, nothing written
Nil == "nil"

Init ==
    /\ confReadable \in BOOLEAN
    /\ env \in {e \in [Orgs -> UNION {PatValues(o) : o \in Orgs}] :
                  \A o \in Orgs : e[o] \in PatValues(o)}
    /\ \E f \in Servers :
         server = [o \in Orgs |-> [k \in 1..Len(f[o]) |-> MkRepo(o, k, f[o][k])]]
    /\ pc = "check_gitleaks_conf"
    /\ i = 1
    /\ pats = <<>>
    /\ todo = {}
    /\ gorg = Nil
    /\ page = 0
    /\ org_repos = <<>>
    /\ all_repos = <<>>
    /\ d = 1
    /\ units = <<>>
    /\ collected = 0
    /\ final_results = <<>>
    /\ output = Nil
    /\ requested = {}
    /\ failedOrgs = {}

(***************************************************************************)
(* main, up to the dispatch of the scans.                                  *)
(***************************************************************************)
\* check_gitleaks_conf logging with log.Error: it returns the error, which
\* main does not look at
check_gitleaks_conf_Returns ==
    /\ pc = "check_gitleaks_conf"
    /\ pc' = "pats"
    /\ UNCHANGED <<i, pats, todo, all_repos, d, collected, final_results, output>>
    /\ UNCHANGED <<inputVars, discoveryVars, units>>

\* check_gitleaks_conf(gitleaks_toml_path): log.Fatal ends the process
check_gitleaks_conf ==
    /\ pc = "check_gitleaks_conf"
    /\ pc' = IF confReadable THEN "pats" ELSE "exit_fatal"
    /\ UNCHANGED <<i, pats, todo, all_repos, d, collected, final_results, output>>
    /\ UNCHANGED <<inputVars, discoveryVars, units>>

\* PutPat without the `continue` of an empty PAT
PutPatAlways(m, org, pat) ==
    [o \in (DOMAIN m) \cup {org} |-> IF o = org THEN pat ELSE m[o]]

\* pats[org] = pat, unless the PAT is empty
PutPat(m, org, pat) ==
    IF pat = "" THEN m
    ELSE [o \in (DOMAIN m) \cup {org} |-> IF o = org THEN pat ELSE m[o]]

\* for _, org := range conf.GithubConfig.OrgsToScan { ... }: one organization
ResolvePat ==
    /\ pc = "pats"
    /\ i <= Len(OrgsToScan)
    /\ pats' = PutPat(pats, OrgsToScan[i], env[OrgsToScan[i]])
    /\ i' = i + 1
    /\ UNCHANGED <<pc, todo, all_repos, d, collected, final_results, output>>
    /\ UNCHANGED <<inputVars, discoveryVars, units>>

\* the PAT loop ends; the discovery loop will range over the keys of pats
PatsDone ==
    /\ pc = "pats"
    /\ i > Len(OrgsToScan)
    /\ todo' = DOMAIN pats
    /\ pc' = "discover"
    /\ UNCHANGED <<i, pats, all_repos, d, collected, final_results, output>>
    /\ UNCHANGED <<inputVars, discoveryVars, units>>

\* for org, pat := range pats: the next key, in the order the map gives, and
\* the call get_org_repos(org, pat, conf.GithubConfig.DaysToScan)
CallGetOrgRepos ==
    /\ pc = "discover"
    /\ \E org \in todo :
         /\ todo' = todo \ {org}
         /\ gorg' = org
    /\ page' = 0
    /\ org_repos' = <<>>
    /\ pc' = "list"
    /\ UNCHANGED <<i, pats, all_repos, d, collected, final_results, output>>
    /\ UNCHANGED <<inputVars, requested, failedOrgs, units>>

\* page = page + 1; the numbers from PageCap on all name an empty page and
\* are kept as one
NextPage(p) == IF p >= PageCap THEN p ELSE p + 1

\* get_org_repos: one turn of the loop whose request the API answers
ListPage ==
    /\ pc = "list"
    /\ requested' = requested \cup {gorg}
    /\ LET r == ScanPage(ListByOrg(server[gorg], page), 1, org_repos, TimeAgo(DaysToScan))
       IN  /\ org_repos' = r[1]
           /\ IF r[2]
              THEN pc' = "returned" /\ page' = page
              ELSE pc' = pc /\ page' = NextPage(page)
    /\ UNCHANGED <<i, pats, todo, all_repos, d, collected, final_results, output>>
    /\ UNCHANGED <<inputVars, gorg, failedOrgs, units>>

\* ListPageError returning what was gathered so far, as a success
ListPageErrorKeepsRepos ==
    /\ pc = "list"
    /\ requested' = requested \cup {gorg}
    /\ failedOrgs' = failedOrgs \cup {gorg}
    /\ org_repos' = org_repos
    /\ pc' = "returned"
    /\ UNCHANGED <<i, pats, todo, all_repos, d, collected, final_results, output>>
    /\ UNCHANGED <<inputVars, gorg, page, units>>

\* get_org_repos: the API answers a request with an error: return nil, err
ListPageError ==
    /\ pc = "list"
    /\ requested' = requested \cup {gorg}
    /\ failedOrgs' = failedOrgs \cup {gorg}
    /\ org_repos' = <<>>
    /\ pc' = "failed"
    /\ UNCHANGED <<i, pats, todo, all_repos, d, collected, final_results, output>>
    /\ UNCHANGED <<inputVars, gorg, page, units>>

\* main, get_org_repos returned repos: all_repos = append(all_repos, repos...)
AppendRepos ==
    /\ pc = "returned"
    /\ all_repos' = all_repos \o org_repos
    /\ pc' = "discover"
    /\ UNCHANGED <<i, pats, todo, d, collected, final_results, output>>
    /\ UNCHANGED <<inputVars, discoveryVars, units>>

\* main, get_org_repos returned an error: log and continue
SkipOrg ==
    /\ pc = "failed"
    /\ pc' = "discover"
    /\ UNCHANGED <<i, pats, todo, all_repos, d, collected, final_results, output>>
    /\ UNCHANGED <<inputVars, discoveryVars, units>>

\* the discovery loop ends: results := make(chan GitleaksRepoResult)
DiscoveryDone ==
    /\ pc = "discover"
    /\ todo = {}
    /\ pc' = "dispatch"
    /\ UNCHANGED <<i, pats, todo, all_repos, d, collected, final_results, output>>
    /\ UNCHANGED <<inputVars, discoveryVars, units>>

(***************************************************************************)
(* main: the dispatch loop.                                                *)
(***************************************************************************)
\* pats[orgname]: a map answers a key it does not hold with the zero value
Lookup(m, key) == IF key \in DOMAIN m THEN m[key] ELSE ""

\* strings.Split(repo.GetFullName(), "/")[0]
OrgOf(repo) == repo.Owner

\* scan_repo's first statement: result := GitleaksRepoResult{...}
NewResult(repo, orgname) ==
    [Repository |-> repo.Name, URL |-> <<repo.Owner, repo.Name>>, Org |-> orgname,
     Err |-> Nil, Results |-> <<>>]

\* no directory, no clone URL yet
NoPath == <<>>

\* go scan_repo(repo, pat, orgname, gitleaks_toml_path, results): the
\* goroutine's arguments and locals.  History, not state of the program:
\* failed (the step the environment made fail), steps (the steps attempted, in
\* order), log (the records the goroutine logged), touched (the paths it used)
\* and sent (the results it has sent).
NewUnit(repo, pat, orgname) ==
    [repo |-> repo, pat |-> pat, orgname |-> orgname, pc |-> "mkdir", dir |-> NoPath,
     cloneUrl |-> NoPath, resultfile |-> Nil, result |-> NewResult(repo, orgname),
     failed |-> Nil, steps |-> <<>>, log |-> <<>>, touched |-> {}, sent |-> 0]

\* Dispatch calling scan_repo instead of starting it with go: the loop goes on
\* when the scan before has returned
DispatchSerial ==
    /\ pc = "dispatch"
    /\ d <= Len(all_repos)
    /\ \A u \in DOMAIN units : units[u].pc = "done"
    /\ units' = Append(units, NewUnit(all_repos[d], Lookup(pats, OrgOf(all_repos[d])),
                                      OrgOf(all_repos[d])))
    /\ d' = d + 1
    /\ UNCHANGED <<pc, i, pats, todo, all_repos, collected, final_results, output>>
    /\ UNCHANGED <<inputVars, discoveryVars>>

\* for _, repo := range all_repos { ... }: one repository
Dispatch ==
    /\ pc = "dispatch"
    /\ d <= Len(all_repos)
    /\ units' = Append(units, NewUnit(all_repos[d], Lookup(pats, OrgOf(all_repos[d])),
                                      OrgOf(all_repos[d])))
    /\ d' = d + 1
    /\ UNCHANGED <<pc, i, pats, todo, all_repos, collected, final_results, output>>
    /\ UNCHANGED <<inputVars, discoveryVars>>

\* the dispatch loop ends: collected := 0, final_results := make(...)
DispatchDone ==
    /\ pc = "dispatch"
    /\ d > Len(all_repos)
    /\ collected' = 0
    /\ final_results' = <<>>
    /\ pc' = "collect"
    /\ UNCHANGED <<i, pats, todo, all_repos, d, output>>
    /\ UNCHANGED <<inputVars, discoveryVars, units>>

(***************************************************************************)
(* scan_repo: one goroutine, step by step.  `failed` is history: the step  *)
(* the environment made fail.                                              *)
(***************************************************************************)
\* the error a failing step returns
ErrOf(step) ==
    CASE step = "mkdir"    -> "mkdir failed"
      [] step = "clone"    -> "clone failed"
      [] step = "gitleaks" -> "gitleaks failed"
      [] step = "read"     -> "read failed"
      [] step = "parse"    -> "parse failed"

\* what the findings file may hold
FileContents == {"garbage", "[]", "[f1]"}

\* json.Unmarshal(resultfile, &jsonResults)
Unmarshal(content) ==
    CASE content = "[]"   -> [err |-> Nil, val |-> <<>>]
      [] content = "[f1]" -> [err |-> Nil, val |-> <<"f1">>]
      [] OTHER            -> [err |-> ErrOf("parse"), val |-> <<>>]

\* the message of the log.Error of a failing step
MsgOf(step) ==
    CASE step = "mkdir"    -> "failed to create temp dir to scan repo"
      [] step = "clone"    -> "failed to clone repo"
      [] step = "gitleaks" -> "error running gitleaks on the repo"
      [] step = "read"     -> "error opening results file"
      [] step = "parse"    -> "error unmarshaling gitleaks results"

\* ErrorRecord with the arguments of the failed command among the fields
ErrorRecordWithArgs(unit, step) ==
    [level |-> "error", msg |-> MsgOf(step), repo |-> <<unit.repo.Name>>,
     err |-> ErrOf(step), more |-> unit.cloneUrl]

\* log.Error().Err(err).Str("repo", *repo.Name).Msg(...)
ErrorRecord(unit, step) ==
    [level |-> "error", msg |-> MsgOf(step), repo |-> <<unit.repo.Name>>,
     err |-> ErrOf(step), more |-> NoPath]

\* log.Debug().Str("repo", *repo.Name).Str("dir", dir).Msg("tempdir set")
DebugRecord(unit, dir) ==
    [level |-> "debug", msg |-> "tempdir set", repo |-> <<unit.repo.Name>>,
     err |-> Nil, more |-> dir]

\* the steps of scan_repo, in the order of the code
StepOrder == <<"mkdir", "clone", "gitleaks", "read", "parse">>

\* the place the code following a step starts at
AfterStep(step) ==
    CASE step = "mkdir"    -> "clone"
      [] step = "clone"    -> "gitleaks"
      [] step = "gitleaks" -> "read"
      [] step = "read"     -> "parse"
      [] step = "parse"    -> "send"

\* FailStep without results <- result and return: the code after the failed
\* step goes on
FailStepFallsThrough(unit, step) ==
    [unit EXCEPT !.result.Err = ErrOf(step), !.failed = step, !.pc = AfterStep(step),
                 !.log = Append(@, ErrorRecord(unit, step))]

\* FailStep returning without results <- result
FailStepNoSend(unit, step) ==
    [unit EXCEPT !.result.Err = ErrOf(step), !.failed = step, !.pc = "done",
                 !.log = Append(@, ErrorRecord(unit, step))]

\* FailStep without result.Err = err
FailStepNoErr(unit, step) ==
    [unit EXCEPT !.failed = step, !.pc = "send",
                 !.log = Append(@, ErrorRecord(unit, step))]

\* a failing step: log, result.Err = err, and the goroutine is at results <- result
FailStep(unit, step) ==
    [unit EXCEPT !.result.Err = ErrOf(step), !.failed = step, !.pc = "send",
                 !.log = Append(@, ErrorRecord(unit, step))]

UnitStepFrame ==
    /\ UNCHANGED <<pc, i, pats, todo, all_repos, d, collected, final_results, output>>
    /\ UNCHANGED <<inputVars, discoveryVars>>

\* the paths of a run
TempDir(n) == <<"moss_", n>>
OutputPath(dir) == Append(dir, "__gitleaks.json")
ConfPath == <<"gitleaks.toml">>

\* the directories os.MkdirTemp has made: none is ever removed (the
\* os.RemoveAll(dir) of scan_repo is commented out)
TempDirs == {units[u].dir : u \in DOMAIN units} \ {NoPath}

\* FreshDir answering with one name, whatever exists
SameDir(existing, u) == TempDir(1)

\* os.MkdirTemp makes a directory that did not exist; of the names free, the
\* model takes the one numbered as the goroutine that asks, u, and when that
\* one exists the first free
FreshDir(existing, u) ==
    IF TempDir(u) \notin existing THEN TempDir(u)
    ELSE TempDir(CHOOSE n \in 1..(Cardinality(existing) + 1) :
                   /\ TempDir(n) \notin existing
                   /\ \A m \in 1..(n - 1) : TempDir(m) \in existing)

\* a step of a goroutine is attempted
Attempt(unit, step) == [unit EXCEPT !.steps = Append(@, step)]

\* a path is used
Touch(unit, op, path, write) ==
    [unit EXCEPT !.touched = @ \cup {[op |-> op, path |-> path, write |-> write]}]

\* os.MkdirTemp succeeded: log.Debug "tempdir set"
MkdirOk(unit, dir) ==
    [Touch(unit, "mkdir", dir, TRUE) EXCEPT !.dir = dir, !.pc = "clone",
                                            !.log = Append(@, DebugRecord(unit, dir))]

\* cloneUrl = strings.Replace(*repo.CloneURL, "https://", "https://<pat>@", 1)
CloneUrl(repo, pat) == <<"https://", pat, "@", repo.Owner, repo.Name>>

\* cloneargs := []string{"clone", cloneUrl, dir}
WithCloneUrl(unit) ==
    [Touch(unit, "clone", unit.dir, TRUE) EXCEPT !.cloneUrl = CloneUrl(unit.repo, unit.pat)]

\* git clone succeeded
CloneOk(unit) == [unit EXCEPT !.pc = "gitleaks"]

\* gitleaks detect ... -r=<dir>/__gitleaks.json -c=<gl_conf_path> <dir>
WithGitleaksArgs(unit) ==
    Touch(Touch(Touch(unit, "gitleaks", unit.dir, FALSE),
                "gitleaks", OutputPath(unit.dir), TRUE),
          "gitleaks", ConfPath, FALSE)

\* gitleaks ran
GitleaksOk(unit) == [unit EXCEPT !.pc = "read"]

\* os.ReadFile(outputpath) succeeded
ReadOk(unit, content) ==
    [unit EXCEPT !.resultfile = content, !.pc = "parse"]

\* success: result.Results = jsonResults; result.Err = nil
ParseOk(unit, val) ==
    [unit EXCEPT !.result.Results = val, !.result.Err = Nil, !.pc = "send"]

\* dir, err := os.MkdirTemp(os.TempDir(), "moss_"), with its outcome
MkdirTempStep(unit, dir, ok) ==
    IF ok THEN MkdirOk(Attempt(unit, "mkdir"), dir)
    ELSE FailStep(Attempt(unit, "mkdir"), "mkdir")

MkdirTemp(u) ==
    /\ units[u].pc = "mkdir"
    /\ \E ok \in BOOLEAN :
         units' = [units EXCEPT ![u] = MkdirTempStep(@, FreshDir(TempDirs, u), ok)]
    /\ UnitStepFrame

\* exec.Command("git", "clone", cloneUrl, dir).Run(), with its outcome
CloneStep(unit, ok) ==
    IF ok THEN CloneOk(WithCloneUrl(Attempt(unit, "clone")))
    ELSE FailStep(WithCloneUrl(Attempt(unit, "clone")), "clone")

Clone(u) ==
    /\ units[u].pc = "clone"
    /\ \E ok \in BOOLEAN : units' = [units EXCEPT ![u] = CloneStep(@, ok)]
    /\ UnitStepFrame

\* gl_cmd.Run(), with its outcome
RunGitleaksStep(unit, ok) ==
    IF ok THEN GitleaksOk(WithGitleaksArgs(Attempt(unit, "gitleaks")))
    ELSE FailStep(WithGitleaksArgs(Attempt(unit, "gitleaks")), "gitleaks")

RunGitleaks(u) ==
    /\ units[u].pc = "gitleaks"
    /\ \E ok \in BOOLEAN : units' = [units EXCEPT ![u] = RunGitleaksStep(@, ok)]
    /\ UnitStepFrame

\* resultfile, err := os.ReadFile(outputpath); content Nil is a failed read
ReadResultFileStep(unit, content) ==
    LET read == Touch(Attempt(unit, "read"), "read", OutputPath(unit.dir), FALSE)
    IN  IF content # Nil THEN ReadOk(read, content) ELSE FailStep(read, "read")

ReadResultFile(u) ==
    /\ units[u].pc = "read"
    /\ \E content \in FileContents \cup {Nil} :
         units' = [units EXCEPT ![u] = ReadResultFileStep(@, content)]
    /\ UnitStepFrame

\* err = json.Unmarshal(...); on success result.Results = jsonResults and
\* result.Err = nil
ParseResultsStep(unit) ==
    LET parsed == Unmarshal(unit.resultfile)
    IN  IF parsed.err # Nil THEN FailStep(Attempt(unit, "parse"), "parse")
        ELSE ParseOk(Attempt(unit, "parse"), parsed.val)

ParseResults(u) ==
    /\ units[u].pc = "parse"
    /\ units' = [units EXCEPT ![u] = ParseResultsStep(@)]
    /\ UnitStepFrame

(***************************************************************************)
(* main: the collection loop and the report.                               *)
(***************************************************************************)
\* the test one short: collected >= len(all_repos) - 1
CollectedAllButOne(n, total) == n >= total - 1

\* the test as "a result has come"
CollectedAny(n, total) == n >= 1

\* if collected >= len(all_repos) { break }
CollectedAll(n, total) == n >= total

\* results <- result has been taken: the goroutine returns
Sent(unit) == [unit EXCEPT !.sent = @ + 1, !.pc = "done"]

\* Receive leaving the loop at the first result that holds an error
ReceiveUntilError(u) ==
    /\ pc = "collect"
    /\ units[u].pc = "send"
    /\ final_results' = Append(final_results, units[u].result)
    /\ collected' = collected + 1
    /\ pc' = IF units[u].result.Err # Nil \/ collected + 1 >= Len(all_repos)
             THEN "report" ELSE "collect"
    /\ units' = [units EXCEPT ![u] = Sent(@)]
    /\ UNCHANGED <<i, pats, todo, all_repos, d, output>>
    /\ UNCHANGED <<inputVars, discoveryVars>>

\* One turn of the loop.  The channel has no buffer: results <- result of a
\* goroutine and repoResult := <-results of main are one step, after which the
\* goroutine returns.
Receive(u) ==
    /\ pc = "collect"
    /\ units[u].pc = "send"
    /\ final_results' = Append(final_results, units[u].result)
    /\ collected' = collected + 1
    /\ pc' = IF CollectedAll(collected + 1, Len(all_repos)) THEN "report" ELSE "collect"
    /\ units' = [units EXCEPT ![u] = Sent(@)]
    /\ UNCHANGED <<i, pats, todo, all_repos, d, output>>
    /\ UNCHANGED <<inputVars, discoveryVars>>

\* if conf.Output.Format == "json" { ... os.WriteFile ... fmt.Println(output) }
Report ==
    /\ pc = "report"
    /\ \E format \in Formats :
         output' = IF format = "json" THEN final_results ELSE Nil
    /\ pc' = "done"
    /\ UNCHANGED <<i, pats, todo, all_repos, d, collected, final_results>>
    /\ UNCHANGED <<inputVars, discoveryVars, units>>

Next ==
    \/ check_gitleaks_conf
    \/ ResolvePat
    \/ PatsDone
    \/ CallGetOrgRepos
    \/ ListPage
    \/ ListPageError
    \/ AppendRepos
    \/ SkipOrg
    \/ DiscoveryDone
    \/ Dispatch
    \/ DispatchDone
    \/ \E u \in DOMAIN units : MkdirTemp(u)
    \/ \E u \in DOMAIN units : Clone(u)
    \/ \E u \in DOMAIN units : RunGitleaks(u)
    \/ \E u \in DOMAIN units : ReadResultFile(u)
    \/ \E u \in DOMAIN units : ParseResults(u)
    \/ \E u \in DOMAIN units : Receive(u)
    \/ Report

Spec == Init /\ [][Next]_vars

(***************************************************************************)
(* Vocabulary of the properties.                                           *)
(***************************************************************************)
\* main has left the collection loop
Reporting == pc \in {"report", "done"}

\* main has left the discovery loop
Discovering == pc \in {"discover", "list", "returned", "failed"}
AfterDiscovery == pc \in {"dispatch", "collect", "report", "done"}

\* how many places of a sequence hold x
Count(seq, x) == Cardinality({k \in DOMAIN seq : seq[k] = x})

\* the repository a result, or a descriptor, is about
RepoOfResult(r) == r.URL
RepoOfDescriptor(repo) == <<repo.Owner, repo.Name>>

\* the configured organization whose list at the host holds a repository
ListedFor(repo) == CHOOSE o \in Orgs : Login(o) = repo.Owner

\* last push within the recency window: not strictly older than the cutoff
Recent(repo) == repo.PushedAt >= Now - DaysToScan

\* the first place of a list that holds a non-archived repository older than
\* the cutoff; Len + 1 when there is none
FirstStale(list) ==
    LET stale == {k \in DOMAIN list : ~list[k].Archived /\ ~Recent(list[k])}
    IN  IF stale = {} THEN Len(list) + 1
        ELSE CHOOSE k \in stale : \A j \in stale : k <= j

\* the API lists by last push, latest first
SortedByPush(list) ==
    \A a, b \in DOMAIN list : a < b => list[a].PushedAt >= list[b].PushedAt

(***************************************************************************)
(* C1.  When the collection loop has finished, final_results holds exactly *)
(* one result per dispatched repository: as many results as all_repos has  *)
(* entries, and every repository as often among the results as it was      *)
(* dispatched, whatever steps failed and however the goroutines ran.       *)
(***************************************************************************)
C1_OneResultPerDispatch ==
    Reporting =>
        /\ Len(final_results) = Len(all_repos)
        /\ collected = Len(all_repos)
        /\ Len(units) = Len(all_repos)
        /\ \A k \in DOMAIN all_repos :
             Count([j \in DOMAIN final_results |-> RepoOfResult(final_results[j])],
                   RepoOfDescriptor(all_repos[k]))
               = Count([j \in DOMAIN all_repos |-> RepoOfDescriptor(all_repos[j])],
                       RepoOfDescriptor(all_repos[k]))
        /\ \A j \in DOMAIN final_results :
             \E k \in DOMAIN all_repos :
               RepoOfResult(final_results[j]) = RepoOfDescriptor(all_repos[k])

\* two different repositories collected, one with an error and one without
C1_Witness ==
    /\ pc = "done"
    /\ Len(all_repos) = 2
    /\ RepoOfDescriptor(all_repos[1]) # RepoOfDescriptor(all_repos[2])
    /\ \E a, b \in DOMAIN final_results :
         final_results[a].Err # Nil /\ final_results[b].Err = Nil

(***************************************************************************)
(* C2.  The collection never completes early: once main is at the report,  *)
(* every dispatched goroutine has handed over its result; while one has    *)
(* not, main is still dispatching or waiting in the collection loop.       *)
(***************************************************************************)
C2_NeverCompletesEarly ==
    /\ Reporting =>
         /\ Len(units) = Len(all_repos)
         /\ \A u \in DOMAIN units : units[u].pc = "done"
         /\ collected = Len(all_repos)
    /\ (\E u \in DOMAIN units : units[u].pc # "done") => pc \in {"dispatch", "collect"}

\* main reaches the report with two goroutines dispatched and both results in
C2_Witness ==
    /\ pc = "report"
    /\ Len(units) = 2
    /\ collected = 2

(***************************************************************************)
(* C3.  The collection does not wait past the dispatched count: for every  *)
(* number n >= 0 of dispatched repositories, once collected = n main makes *)
(* no further receive.  (Stated of the code: main is at a receive only     *)
(* while collected < n.)                                                   *)
(***************************************************************************)
C3_NoReceivePastCount ==
    pc = "collect" => collected < Len(all_repos)

(***************************************************************************)
(* C4.  With a readable rule file the run always completes and reports:    *)
(* as a property of finite runs, main is done or a step is possible.       *)
(***************************************************************************)
C4_RunCompletes ==
    (confReadable /\ pc # "done") => ENABLED Next

(***************************************************************************)
(* C5.  Every repository get_org_repos returns is non-archived and not     *)
(* strictly older than the cutoff, and none of them follows the first      *)
(* stale non-archived repository of the organization's list.               *)
(***************************************************************************)
C5_ReturnedAreLiveAndRecent ==
    /\ pc = "returned" =>
         \A k \in DOMAIN org_repos :
           /\ ~org_repos[k].Archived
           /\ Recent(org_repos[k])
           /\ ListedFor(org_repos[k]) = gorg
           /\ org_repos[k].Name < FirstStale(server[gorg])
    /\ \A k \in DOMAIN all_repos :
           /\ ~all_repos[k].Archived
           /\ Recent(all_repos[k])
           /\ all_repos[k].Name < FirstStale(server[ListedFor(all_repos[k])])

\* a return with a repository, from a list that holds a recent non-archived
\* repository after its first stale one
C5_Witness ==
    /\ pc = "returned"
    /\ org_repos # <<>>
    /\ \E k \in DOMAIN server[gorg] :
         /\ k > FirstStale(server[gorg])
         /\ ~server[gorg][k].Archived
         /\ Recent(server[gorg][k])

(***************************************************************************)
(* C6.  Against an API that lists by last push, latest first, and answers  *)
(* without error, what get_org_repos returns is, as a set, exactly the     *)
(* organization's non-archived repositories pushed within the window.      *)
(***************************************************************************)
C6_ExactlyRecentLive ==
    (pc = "returned" /\ SortedByPush(server[gorg])) =>
        {org_repos[k] : k \in DOMAIN org_repos}
          = {server[gorg][k] : k \in {j \in DOMAIN server[gorg] :
                                        /\ ~server[gorg][j].Archived
                                        /\ Recent(server[gorg][j])}}

\* the scenario in small: a recent repository, an archived one pushed within
\* the window and a stale one; the recent one is returned
C6_Witness ==
    /\ pc = "returned"
    /\ SortedByPush(server[gorg])
    /\ org_repos # <<>>
    /\ \E a, b, c \in DOMAIN server[gorg] :
         /\ ~server[gorg][a].Archived /\ Recent(server[gorg][a])
         /\ server[gorg][b].Archived /\ Recent(server[gorg][b])
         /\ ~server[gorg][c].Archived /\ ~Recent(server[gorg][c])

(***************************************************************************)
(* C7.  An organization without a non-empty PAT is not in pats, is never   *)
(* asked of the API and has no repository in all_repos; the organizations  *)
(* that have a PAT are all in pats, with their PAT, once the PAT loop is   *)
(* over, and have all been asked of the API once discovery is over.        *)
(***************************************************************************)
C7_NoPatNoDiscovery ==
    /\ \A o \in Orgs :
         env[o] = "" =>
           /\ o \notin DOMAIN pats
           /\ o \notin requested
           /\ gorg # o
           /\ \A k \in DOMAIN all_repos : ListedFor(all_repos[k]) # o
           /\ \A u \in DOMAIN units : ListedFor(units[u].repo) # o
    /\ (Discovering \/ AfterDiscovery) =>
         \A o \in Orgs : env[o] # "" => (o \in DOMAIN pats /\ pats[o] = env[o])
    /\ AfterDiscovery =>
         \A o \in Orgs : env[o] # "" => o \in requested

\* the first organization has no PAT and recent repositories, the second has
\* a PAT: discovery is over and all_repos holds a repository of the second
C7_Witness ==
    /\ pc = "dispatch"
    /\ env[OrgsToScan[1]] = ""
    /\ env[OrgsToScan[2]] # ""
    /\ \E k \in DOMAIN server[OrgsToScan[1]] :
         ~server[OrgsToScan[1]][k].Archived /\ Recent(server[OrgsToScan[1]][k])
    /\ all_repos # <<>>
    /\ requested = {OrgsToScan[2]}

(***************************************************************************)
(* C8.  The result scan_repo hands over has an error and no findings when  *)
(* a step failed, and no error and the findings parsed from the file       *)
(* exactly when every step succeeded; no result has an error and findings. *)
(***************************************************************************)
C8_ErrorOrFindings ==
    /\ \A u \in DOMAIN units :
         units[u].pc \in {"send", "done"} =>
           /\ units[u].failed # Nil =>
                (units[u].result.Err # Nil /\ units[u].result.Results = <<>>)
           /\ units[u].failed = Nil =>
                /\ units[u].result.Err = Nil
                /\ units[u].resultfile \in {"[]", "[f1]"}
                /\ units[u].resultfile = "[]" => units[u].result.Results = <<>>
                /\ units[u].resultfile = "[f1]" => units[u].result.Results = <<"f1">>
           /\ units[u].result.Err = Nil <=> units[u].failed = Nil
    /\ \A k \in DOMAIN final_results :
         ~(final_results[k].Err # Nil /\ final_results[k].Results # <<>>)

\* a result with the error of a failed clone and a result with a finding have
\* both been collected
C8_Witness ==
    \E a, b \in DOMAIN final_results :
      /\ final_results[a].Err = "clone failed"
      /\ final_results[a].Results = <<>>
      /\ final_results[b].Err = Nil
      /\ final_results[b].Results = <<"f1">>

(***************************************************************************)
(* C9.  When the rule file cannot be read the run ends in                  *)
(* check_gitleaks_conf: no PAT is resolved, no request goes to the API, no *)
(* repository is gathered and no scan goroutine is started (so nothing is  *)
(* cloned or scanned).                                                     *)
(***************************************************************************)
C9_FatalBeforeAnyActivity ==
    ~confReadable =>
        /\ pc \in {"check_gitleaks_conf", "exit_fatal"}
        /\ requested = {}
        /\ pats = <<>>
        /\ all_repos = <<>>
        /\ units = <<>>
        /\ output = Nil

\* the run has ended on the unreadable file although an organization has a PAT
\* and a recent repository to scan
C9_Witness ==
    /\ ~confReadable
    /\ pc = "exit_fatal"
    /\ \E o \in Orgs :
         /\ env[o] # ""
         /\ \E k \in DOMAIN server[o] : ~server[o][k].Archived /\ Recent(server[o][k])

\* the result the steps of a goroutine give: its repository, the step it
\* failed at, the file it read
OwnResult(unit) ==
    IF unit.failed # Nil
    THEN [Repository |-> unit.repo.Name, URL |-> <<unit.repo.Owner, unit.repo.Name>>,
          Org |-> unit.orgname,
          Err |-> CASE unit.failed = "mkdir"    -> "mkdir failed"
                    [] unit.failed = "clone"    -> "clone failed"
                    [] unit.failed = "gitleaks" -> "gitleaks failed"
                    [] unit.failed = "read"     -> "read failed"
                    [] unit.failed = "parse"    -> "parse failed",
          Results |-> <<>>]
    ELSE [Repository |-> unit.repo.Name, URL |-> <<unit.repo.Owner, unit.repo.Name>>,
          Org |-> unit.orgname, Err |-> Nil,
          Results |-> IF unit.resultfile = "[f1]" THEN <<"f1">> ELSE <<>>]

(***************************************************************************)
(* C10.  Scan goroutines do not interfere.  The result a goroutine hands   *)
(* over is the one its own steps give (its repository, the step it failed  *)
(* at, the file it read); and once main reports, every goroutine's result  *)
(* is among final_results as often as goroutines gave that result: the     *)
(* failure of one neither changes nor holds back the result of another.    *)
(***************************************************************************)
C10_NoInterference ==
    /\ \A u \in DOMAIN units :
         units[u].pc \in {"send", "done"} => units[u].result = OwnResult(units[u])
    /\ \A u \in DOMAIN units :
         units[u].pc = "done" =>
           Count(final_results, units[u].result)
             = Cardinality({v \in DOMAIN units :
                              units[v].pc = "done" /\ units[v].result = units[u].result})
    /\ Reporting =>
         \A u \in DOMAIN units :
           /\ units[u].pc = "done"
           /\ \E k \in DOMAIN final_results : final_results[k] = OwnResult(units[u])

\* the scenario: gitleaks failed for one repository and every step succeeded
\* for another; main is done with the error of the first and the findings of
\* the second
C10_Witness ==
    /\ pc = "done"
    /\ \E u, v \in DOMAIN units :
         /\ units[u].repo # units[v].repo
         /\ units[u].failed = "gitleaks"
         /\ units[v].failed = Nil
         /\ \E a, b \in DOMAIN final_results :
              /\ final_results[a].URL = <<units[u].repo.Owner, units[u].repo.Name>>
              /\ final_results[a].Err = "gitleaks failed"
              /\ final_results[b].URL = <<units[v].repo.Owner, units[v].repo.Name>>
              /\ final_results[b].Err = Nil

\* what scan_repo lets out of a goroutine: its log records and its result
Observable(unit) == <<unit.log, unit.result>>

\* the tokens a goroutine may be given
Tokens == {TokenOf(o) : o \in Orgs} \cup {""}

\* the same goroutine at the same place, had it been given token t
WithToken(unit, t) ==
    [unit EXCEPT !.pat = t,
                 !.cloneUrl = IF @ = NoPath THEN NoPath ELSE CloneUrl(unit.repo, t)]

\* the outcomes the external command of a goroutine's next step may have; Nil
\* is its failure
OutcomesAt(unit) ==
    CASE unit.pc \in {"mkdir", "clone", "gitleaks"} -> {Nil, "ok"}
      [] unit.pc = "read"                           -> FileContents \cup {Nil}
      [] OTHER                                      -> {Nil}

\* the next step of a goroutine, with the outcome x of its external command
\* and the directory os.MkdirTemp would make
ScanRepoStep(unit, dir, x) ==
    CASE unit.pc = "mkdir"    -> MkdirTempStep(unit, dir, x # Nil)
      [] unit.pc = "clone"    -> CloneStep(unit, x # Nil)
      [] unit.pc = "gitleaks" -> RunGitleaksStep(unit, x # Nil)
      [] unit.pc = "read"     -> ReadResultFileStep(unit, x)
      [] unit.pc = "parse"    -> ParseResultsStep(unit)
      [] unit.pc = "send"     -> Sent(unit)
      [] OTHER                -> unit

(***************************************************************************)
(* C11.  The token never flows into what scan_repo lets out.  Of any       *)
(* goroutine, at any place it reaches, and of the same goroutine given any *)
(* other token: both start with the same log and result, and the next      *)
(* step, with the same outcome of its external command, leaves the two     *)
(* differing in nothing but the token and the clone URL built from it, the *)
(* same log records and the same result among the rest.  No text of a log record or  *)
(* of a result is the token, and the clone URL is the one built from the   *)
(* goroutine's token.                                                      *)
(***************************************************************************)
C11_TokenNotObservable ==
    \A u \in DOMAIN units :
      LET unit == units[u]
      IN  /\ unit.cloneUrl # NoPath => unit.cloneUrl = CloneUrl(unit.repo, unit.pat)
          /\ unit.pat # "" =>
               /\ \A k \in DOMAIN unit.log :
                    unit.pat \notin {unit.log[k].msg, unit.log[k].err, unit.log[k].level}
               /\ unit.pat \notin {unit.result.Err, unit.result.Org}
               /\ \A k \in DOMAIN final_results :
                    unit.pat \notin {final_results[k].Err, final_results[k].Org}
          /\ unit.steps = <<>> =>
               \A t \in Tokens \ {unit.pat} :
                 /\ unit = NewUnit(unit.repo, unit.pat, unit.orgname)
                 /\ Observable(NewUnit(unit.repo, t, unit.orgname)) = Observable(unit)
          /\ unit.pc # "done" =>
               \A t \in Tokens \ {unit.pat}, x \in OutcomesAt(unit) :
                 ScanRepoStep(WithToken(unit, t), TempDir(u), x)
                   = WithToken(ScanRepoStep(unit, TempDir(u), x), t)

\* a goroutine that holds a token, whose clone failed: the error is logged, the
\* result is with main
C11_Witness ==
    \E u \in DOMAIN units :
      /\ units[u].pat = TokenOf(OrgsToScan[1])
      /\ units[u].failed = "clone"
      /\ units[u].cloneUrl = CloneUrl(units[u].repo, TokenOf(OrgsToScan[1]))
      /\ units[u].pc = "done"
      /\ Len(units[u].log) = 2
      /\ \E k \in DOMAIN final_results : final_results[k] = units[u].result

\* the non-archived repositories of a page before place k, in order
RECURSIVE LiveBefore(_, _)
LiveBefore(repos, k) ==
    IF k <= 1 THEN <<>>
    ELSE IF repos[k - 1].Archived THEN LiveBefore(repos, k - 1)
    ELSE Append(LiveBefore(repos, k - 1), repos[k - 1])

\* the last n elements of a sequence
Tail_n(seq, n) == SubSeq(seq, Len(seq) - n + 1, Len(seq))

(***************************************************************************)
(* C12.  Discovery stops at the first non-archived stale repository.       *)
(* While get_org_repos is about to request a page, no page it was served   *)
(* before holds a non-archived repository older than the cutoff.  When it  *)
(* has returned, the page it was served last holds one, and the            *)
(* non-archived repositories before the first of them on that page are the *)
(* end of the returned sequence.  Archived repositories, stale or not, are *)
(* passed.                                                                 *)
(***************************************************************************)
C12_StopsAtFirstStale ==
    /\ pc = "list" =>
         \A q \in 0..(page - 1) :
           FirstStale(ListByOrg(server[gorg], q)) > Len(ListByOrg(server[gorg], q))
    /\ pc = "returned" =>
         LET last == ListByOrg(server[gorg], page)
             k    == FirstStale(last)
         IN  /\ k <= Len(last)
             /\ \A q \in 0..(page - 1) :
                  FirstStale(ListByOrg(server[gorg], q)) > Len(ListByOrg(server[gorg], q))
             /\ Len(LiveBefore(last, k)) <= Len(org_repos)
             /\ Tail_n(org_repos, Len(LiveBefore(last, k))) = LiveBefore(last, k)

\* a return at a later page, after a page that holds an archived stale
\* repository, with a non-archived repository before the stale one
C12_Witness ==
    /\ pc = "returned"
    /\ page > 1
    /\ \E q \in 1..(page - 1) :
         \E j \in DOMAIN ListByOrg(server[gorg], q) :
           /\ ListByOrg(server[gorg], q)[j].Archived
           /\ ~Recent(ListByOrg(server[gorg], q)[j])
    /\ LiveBefore(ListByOrg(server[gorg], page),
                  FirstStale(ListByOrg(server[gorg], page))) # <<>>

(***************************************************************************)
(* C13.  An API error on any page makes get_org_repos return an error and  *)
(* no repositories; no repository of an organization whose discovery       *)
(* failed is in all_repos or dispatched; and when discovery is over every  *)
(* organization of the token mapping has been asked of the API.            *)
(***************************************************************************)
C13_FailedOrgDiscarded ==
    /\ pc = "failed" => (org_repos = <<>> /\ gorg \in failedOrgs)
    /\ \A o \in failedOrgs :
         /\ o \notin todo
         /\ \A k \in DOMAIN all_repos : ListedFor(all_repos[k]) # o
         /\ \A u \in DOMAIN units : ListedFor(units[u].repo) # o
    /\ AfterDiscovery => \A o \in DOMAIN pats : o \in requested

\* an error on a later page, after the first page gave repositories to keep,
\* with another organization still to discover
C13_Witness ==
    /\ pc = "failed"
    /\ page >= 1
    /\ ScanPage(ListByOrg(server[gorg], 0), 1, <<>>, TimeAgo(DaysToScan))[1] # <<>>
    /\ todo # {}
    /\ \E o \in todo : Discovered(server[o], 0, <<>>) # <<>>

(***************************************************************************)
(* C14.  The steps of one goroutine are in order and short-circuit: the    *)
(* steps attempted are a start of mkdir, clone, gitleaks, read, parse; a   *)
(* step is attempted only after every step before it succeeded; and the    *)
(* step that failed is the last one attempted, the goroutine being at its  *)
(* send or beyond.                                                         *)
(***************************************************************************)
C14_StepsInOrder ==
    \A u \in DOMAIN units :
      LET unit == units[u]
          n    == Len(unit.steps)
      IN  /\ n <= Len(StepOrder)
          /\ unit.steps = SubSeq(StepOrder, 1, n)
          /\ unit.failed # Nil =>
               /\ n >= 1
               /\ unit.steps[n] = unit.failed
               /\ unit.pc \in {"send", "done"}
          /\ (unit.failed = Nil /\ unit.pc \notin {"send", "done"}) =>
               unit.pc = StepOrder[n + 1]
          /\ (unit.failed = Nil /\ unit.pc \in {"send", "done"}) => n = Len(StepOrder)
          /\ n >= 2 => unit.dir # NoPath
          /\ n >= 3 => unit.cloneUrl # NoPath
          /\ n >= 5 => unit.resultfile # Nil

\* one goroutine stopped at a failed gitleaks run, another went through all
\* five steps
C14_Witness ==
    \E u, v \in DOMAIN units :
      /\ units[u].failed = "gitleaks"
      /\ units[u].steps = <<"mkdir", "clone", "gitleaks">>
      /\ units[u].pc = "done"
      /\ units[v].failed = Nil
      /\ units[v].steps = StepOrder
      /\ units[v].pc = "done"

\* the results the goroutines have sent, all together
RECURSIVE SentUpTo(_)
SentUpTo(n) == IF n = 0 THEN 0 ELSE units[n].sent + SentUpTo(n - 1)

\* a step of goroutine u
UnitStep(u) ==
    MkdirTemp(u) \/ Clone(u) \/ RunGitleaks(u) \/ ReadResultFile(u) \/ ParseResults(u)

(***************************************************************************)
(* C15.  Every scan_repo sends exactly one result, on every path.  A       *)
(* goroutine has sent no result before it returned and one when it has     *)
(* returned, never two; after the send it takes no step; before the send   *)
(* it can always take its next step, whatever failed, and at the send its  *)
(* result is taken as soon as main is at the receive; the results sent are *)
(* the results main has received.                                          *)
(***************************************************************************)
C15_ExactlyOneSend ==
    /\ \A u \in DOMAIN units :
         /\ units[u].sent \in {0, 1}
         /\ units[u].sent = 1 <=> units[u].pc = "done"
         /\ units[u].failed # Nil => units[u].pc \in {"send", "done"}
         /\ units[u].pc = "done" => ~ENABLED (UnitStep(u) \/ Receive(u))
         /\ units[u].pc = "send" => ~ENABLED UnitStep(u)
         /\ (units[u].pc = "send" /\ pc = "collect") => ENABLED Receive(u)
         /\ units[u].pc \notin {"send", "done"} => ENABLED UnitStep(u)
         /\ units[u].pc = "done" =>
              \E k \in DOMAIN final_results : final_results[k] = units[u].result
    /\ SentUpTo(Len(units)) = collected
    /\ Len(final_results) = collected

\* main at the report: one goroutine left by the first failure exit, another
\* by the success exit, each with one result sent
C15_Witness ==
    /\ pc = "report"
    /\ \E u, v \in DOMAIN units :
         /\ units[u].failed = "mkdir" /\ units[u].sent = 1
         /\ units[v].failed = Nil /\ units[v].sent = 1
    /\ Len(final_results) = 2

\* pats as the PAT loop leaves it: every organization with a non-empty PAT
PatsOfEnv == [o \in {x \in Orgs : env[x] # ""} |-> env[o]]

(***************************************************************************)
(* C16.  Every dispatched goroutine is given the name and the non-empty    *)
(* token of the organization whose discovery returned its repository, and  *)
(* pats is as the PAT loop left it from the start of the dispatch on.      *)
(***************************************************************************)
C16_OwnOrgAndToken ==
    /\ \A u \in DOMAIN units :
         /\ units[u].orgname = ListedFor(units[u].repo)
         /\ units[u].pat = pats[ListedFor(units[u].repo)]
         /\ units[u].pat # ""
    /\ AfterDiscovery => pats = PatsOfEnv

\* a goroutine that has begun its work and has not yet come to its send
InProgress(unit) == unit.steps # <<>> /\ unit.pc \notin {"send", "done"}

(***************************************************************************)
(* C17.  The fan-out is unbounded and does not block.  The goroutines      *)
(* started are one for each entry of all_repos the dispatch loop has       *)
(* passed, for that entry; the loop can always start the next one,         *)
(* whatever the goroutines started before are doing; no result is          *)
(* collected, and no goroutine has returned, before all are started.       *)
(***************************************************************************)
C17_FanOut ==
    /\ Len(units) = d - 1
    /\ d <= Len(all_repos) + 1
    /\ \A u \in DOMAIN units : units[u].repo = all_repos[u]
    /\ (pc = "dispatch" /\ d <= Len(all_repos)) => ENABLED Dispatch
    /\ Len(units) < Len(all_repos) =>
         /\ pc \in {"check_gitleaks_conf", "exit_fatal", "pats", "discover", "list",
                    "returned", "failed", "dispatch"}
         /\ collected = 0
         /\ \A u \in DOMAIN units : units[u].pc # "done"
    /\ collected > 0 => Len(units) = Len(all_repos)

\* every goroutine of the run is in the middle of its steps at once, main
\* having started them all and received nothing
C17_Witness ==
    /\ pc = "collect"
    /\ collected = 0
    /\ Len(units) = MaxUnits
    /\ Len(units) = Len(all_repos)
    /\ \A u \in DOMAIN units : InProgress(units[u])

(***************************************************************************)
(* C18.  get_org_repos ends for every organization of finitely many        *)
(* repositories when the API answers without error: once the API has       *)
(* served an empty page, discovery returns and requests no further page.   *)
(* (As a property of finite runs: get_org_repos is about to request a page *)
(* only while no page served to it so far was empty.)                      *)
(***************************************************************************)
C18_ReturnsOnEmptyPage ==
    pc = "list" =>
        \A q \in 0..(page - 1) : ListByOrg(server[gorg], q) # <<>>

\* no element of a sequence of repositories stands for a repository that
\* another element stands for
NoRepoTwice(repos) ==
    \A a, b \in DOMAIN repos :
      a # b => RepoOfDescriptor(repos[a]) # RepoOfDescriptor(repos[b])

(***************************************************************************)
(* C19.  What get_org_repos returns, and hence all_repos, holds no         *)
(* repository more than once, and no repository is scanned twice in a run, *)
(* with the page requests 0, 1, 2, ... of the code against an API that     *)
(* serves page 0 as its first page, number 1.                              *)
(***************************************************************************)
C19_NoRepositoryTwice ==
    /\ pc = "returned" => NoRepoTwice(org_repos)
    /\ NoRepoTwice(all_repos)
    /\ NoRepoTwice([u \in DOMAIN units |-> units[u].repo])

\* the paths a goroutine has used
PathsOf(unit) == {t.path : t \in unit.touched}

(***************************************************************************)
(* C20.  The goroutines share no workspace.  Two goroutines that have made *)
(* their directory hold different directories; a goroutine clones into,    *)
(* scans and reads from its own directory and the findings file in it, and *)
(* nothing else but the rule file; no goroutine removes a directory; and   *)
(* the rule file, never written, is the only path two goroutines both use. *)
(***************************************************************************)
C20_NoSharedWorkspace ==
    /\ \A u, v \in DOMAIN units :
         (u # v /\ units[u].dir # NoPath /\ units[v].dir # NoPath) =>
           units[u].dir # units[v].dir
    /\ \A u \in DOMAIN units :
         /\ units[u].dir # NoPath => units[u].dir \in TempDirs
         /\ units[u].dir = NoPath => units[u].touched = {}
         /\ \A t \in units[u].touched :
              /\ t.path \in {units[u].dir, OutputPath(units[u].dir), ConfPath}
              /\ t.op \in {"mkdir", "clone", "gitleaks", "read"}
              /\ t.path = ConfPath => ~t.write
    /\ \A u, v \in DOMAIN units :
         u # v => (PathsOf(units[u]) \cap PathsOf(units[v])) \subseteq {ConfPath}

\* two goroutines, each with its own directory, have both run gitleaks with
\* the rule file and read their own findings file
C20_Witness ==
    \E u, v \in DOMAIN units :
      /\ u # v
      /\ units[u].dir # NoPath /\ units[v].dir # NoPath
      /\ ConfPath \in PathsOf(units[u]) \cap PathsOf(units[v])
      /\ OutputPath(units[u].dir) \in PathsOf(units[u])
      /\ OutputPath(units[v].dir) \in PathsOf(units[v])
      /\ units[u].resultfile # Nil /\ units[v].resultfile # Nil

====
